---- MODULE Spec2Model ----
(***************************************************************************)
(* Model of backend/app.py: the session map (handlers, get_handler) and    *)
(* the streaming bridge of /api/chat/stream (generate, on_token, run_chat  *)
(* and the consumer loop).  Every request is served by its own thread      *)
(* (app.run(threaded=True)); every stream turn starts one producer thread. *)
(***************************************************************************)
EXTENDS Integers, Sequences, FiniteSets, TLC

\* ---- bounds of the model ----
NumTurns == 2
MaxTokens == 2
MaxPings == 2
NumResets == 1

\* ---- input alphabets ----
Turns == 1..NumTurns
Resets == 1..NumResets
Sessions == {"s1", "s2"}
\* a JSON field the request body does not have
Absent == "absent"
Messages == {Absent, "", "hi"}
Tokens == {"a", "b"}
Texts == {"hello"}
Failures == {"boom"}

\* Python's None
None == "None"
NoHandler == 0

VARIABLES
    handlers,     \* the global dict handlers: session id -> handler (NoHandler: no key)
    made,         \* history: the YandexGPTHandler() instances constructed for each session id
    pc,           \* position of the request thread / consumer of each turn
    sid,          \* session_id of the request
    msg,          \* message of the request
    handler,      \* the local variable handler of chat_stream
    queue,        \* token_queue of the turn
    result,       \* the dict result of generate()
    token_count,  \* token_count[0]
    ppc,          \* position of the producer thread (run_chat) of each turn
    cur,          \* the frame of the yield generate() is suspended at
    yielded,      \* history: the frames generate() has yielded; of the pings,
                  \* the first MaxPings are recorded
    posted,       \* history: the events put on token_queue
    called,       \* history: the tokens the generation call passed to on_token
    outcome,      \* history: how the generation call ended
    genCalls,     \* history: how many times handler.chat_stream was called
    route,        \* the endpoint of the request: "stream" or "chat"
    hist,         \* len(input_list) of each handler instance
    seen,         \* len(handler.input_list) as chat_stream logs it
    fresh,        \* history: a reset of the session returned and no turn started since
    afterReset,   \* history: the turn is the first one started after a reset returned
    rpc,          \* position of each /api/reset request thread
    rsid,         \* session_id of the reset request
    rh,           \* the handler instance the reset request calls reset() on
    resetCalls,   \* history: how many times the reset request invoked handler.reset()
    reported      \* the 'sessions' value of the last /api/status response

\* the state of the /api/reset and /api/status requests
rvars == <<rpc, rsid, rh, resetCalls, reported>>

\* the state the stream bridge itself leaves alone
svars == <<route, hist, seen, fresh, afterReset, rvars>>

vars == <<handlers, made, pc, sid, msg, handler, queue, result, token_count,
          ppc, cur, yielded, posted, called, outcome, genCalls, svars>>

\* the handler instances that can ever be constructed: one per request at most
Instances == 1..NumTurns

\* nothing logged or reported yet
NotYet == -1

\* ---- pure helpers ----

\* variant: a queue created with maxsize=1, whose put blocks while it is full
PutEnabledBounded(q) == Len(q) < 1

\* queue.Queue() is unbounded: put never blocks
PutEnabled(q) == TRUE

\* variant: a LIFO queue
QPutFront(q, ev) == <<ev>> \o q

\* queue.Queue.put: FIFO append
QPut(q, ev) == Append(q, ev)

\* the event on_token puts
TokenEvent(token) == <<"token", token>>

\* variant: the done event carries the initial result['response']
DoneEventEmpty(response) == <<"done", "">>

\* the event run_chat puts after the generation call returned
DoneEvent(response) == <<"done", response>>

\* variant: the failure is reported with the tag of a normal completion
ErrorEventAsDone(e) == <<"done", e>>

\* the event run_chat puts in its except Exception handler
ErrorEvent(e) == <<"error", e>>

\* the payload json.dumps serialises for an event taken from the queue
Frame(ev) == [type |-> ev[1], content |-> ev[2]]

\* the payload of the keep-alive frame
PingFrame == [type |-> "ping"]

\* generate() is not suspended at a yield
NoFrame == [type |-> "none"]

Terminal == {"done", "error"}

\* variant: the error branch lacks its break
AfterYieldErrorLoops(type) == IF type = "done" THEN "join" ELSE "wait"

\* variant: the timeout branch leaves the loop
AfterYieldPingBreaks(type) == IF type \in Terminal \cup {"ping"} THEN "join" ELSE "wait"

\* where the consumer goes when it is resumed after a yield: break or loop
AfterYield(type) == IF type \in Terminal THEN "join" ELSE "wait"

RECURSIVE NonPing(_)
NonPing(fs) ==
    IF fs = <<>> THEN <<>>
    ELSE IF Head(fs).type = "ping" THEN NonPing(Tail(fs))
         ELSE <<Head(fs)>> \o NonPing(Tail(fs))

PingCount(fs) == Cardinality({i \in 1..Len(fs) : fs[i].type = "ping"})

Last(s) == s[Len(s)]

IsPrefix(s, t) == Len(s) <= Len(t) /\ \A i \in 1..Len(s) : s[i] = t[i]

\* dict.get(key, default) of the request body
DataGet(v, default) == IF v = Absent THEN default ELSE v

\* variant: no check of the message
AfterValidateAlways(message) == "gh_check"

\* if not message: return 400 'Empty message'; else go on to get_handler
AfterValidate(message) == IF message = "" THEN "rejected" ELSE "gh_check"

\* variant: one module-level queue used by every turn
QueueOfShared(t) == 1

\* the queue a turn's producer and consumer use: token_queue, local to generate()
QueueOf(t) == t

\* the handler's history after a completed turn: the turn is added to it
HistAfterTurn(n) == n + 1

\* the handler's history after handler.reset(): empty
HistAfterReset(n) == 0

\* session_id in handlers
HasSession(hs, s) == hs[s] # NoHandler

\* len(handlers)
SessionCount(hs) == Cardinality({s \in Sessions : hs[s] # NoHandler})

\* ---- initial state ----
Init ==
    /\ handlers = [s \in Sessions |-> NoHandler]
    /\ made = [s \in Sessions |-> {}]
    /\ pc = [t \in Turns |-> "idle"]
    /\ sid = [t \in Turns |-> None]
    /\ msg = [t \in Turns |-> None]
    /\ handler = [t \in Turns |-> NoHandler]
    /\ queue = [t \in Turns |-> <<>>]
    /\ result = [t \in Turns |-> [response |-> "", error |-> None]]
    /\ token_count = [t \in Turns |-> 0]
    /\ ppc = [t \in Turns |-> "none"]
    /\ cur = [t \in Turns |-> NoFrame]
    /\ yielded = [t \in Turns |-> <<>>]
    /\ posted = [t \in Turns |-> <<>>]
    /\ called = [t \in Turns |-> <<>>]
    /\ outcome = [t \in Turns |-> <<"running">>]
    /\ genCalls = [t \in Turns |-> 0]
    /\ route = [t \in Turns |-> None]
    /\ hist = [h \in Instances |-> 0]
    /\ seen = [t \in Turns |-> NotYet]
    /\ fresh = [s \in Sessions |-> FALSE]
    /\ afterReset = [t \in Turns |-> FALSE]
    /\ rpc = [r \in Resets |-> "idle"]
    /\ rsid = [r \in Resets |-> None]
    /\ rh = [r \in Resets |-> NoHandler]
    /\ resetCalls = [r \in Resets |-> 0]
    /\ reported = NotYet

\* ---- chat_stream: request validation and get_handler ----

\* a chat request arrives at endpoint e: read message and session_id, reject
\* an empty message (the same first lines in chat and in chat_stream)
Arrive(t, s, m, e) ==
    /\ pc[t] = "idle"
    /\ route' = [route EXCEPT ![t] = e]
    /\ sid' = [sid EXCEPT ![t] = s]
    /\ msg' = [msg EXCEPT ![t] = DataGet(m, "")]
    /\ pc' = [pc EXCEPT ![t] = AfterValidate(DataGet(m, ""))]
    /\ IF AfterValidate(DataGet(m, "")) = "rejected"
          THEN UNCHANGED <<fresh, afterReset>>
          ELSE /\ afterReset' = [afterReset EXCEPT ![t] = fresh[s]]
               /\ fresh' = [fresh EXCEPT ![s] = FALSE]
    /\ UNCHANGED <<hist, seen, rvars, handlers, made, handler, queue, result, token_count, ppc,
                   cur, yielded, posted, called, outcome, genCalls>>

\* POST /api/chat/stream arrives
Receive(t, s, m) == Arrive(t, s, m, "stream")

\* POST /api/chat arrives
ReceiveChat(t, s, m) == Arrive(t, s, m, "chat")

\* get_handler: if session_id not in handlers
GetHandlerCheck(t) ==
    /\ pc[t] = "gh_check"
    /\ pc' = [pc EXCEPT ![t] = IF handlers[sid[t]] = NoHandler THEN "gh_create" ELSE "gh_return"]
    /\ UNCHANGED <<svars, handlers, made, sid, msg, handler, queue, result, token_count, ppc,
                   cur, yielded, posted, called, outcome, genCalls>>

\* the number of handler instances constructed so far
NumMade == Cardinality(UNION {made[s] : s \in Sessions})

\* variant: a map that keeps only the session stored last
StoreHandlerEvicting(hs, s, h) == [x \in Sessions |-> IF x = s THEN h ELSE NoHandler]

\* handlers[session_id] = h
StoreHandler(hs, s, h) == [hs EXCEPT ![s] = h]

\* get_handler: handlers[session_id] = YandexGPTHandler()
GetHandlerCreate(t) ==
    /\ pc[t] = "gh_create"
    /\ LET h == NumMade + 1 IN
        /\ handlers' = StoreHandler(handlers, sid[t], h)
        /\ made' = [made EXCEPT ![sid[t]] = @ \cup {h}]
    /\ pc' = [pc EXCEPT ![t] = "gh_return"]
    /\ UNCHANGED <<svars, sid, msg, handler, queue, result, token_count, ppc,
                   cur, yielded, posted, called, outcome, genCalls>>

\* get_handler: return handlers[session_id]; the caller keeps it in handler.
\* chat goes on to its call, chat_stream to its log lines
GetHandlerReturn(t) ==
    /\ pc[t] = "gh_return"
    /\ handler' = [handler EXCEPT ![t] = handlers[sid[t]]]
    /\ pc' = [pc EXCEPT ![t] = IF route[t] = "chat" THEN "chat_ready" ELSE "log"]
    /\ UNCHANGED <<svars, handlers, made, sid, msg, queue, result, token_count, ppc,
                   cur, yielded, posted, called, outcome, genCalls>>

\* chat_stream: after the log line of the model, read len(handler.input_list)
\* of the handler it holds, log it and build the Response
LogHistory(t) ==
    /\ pc[t] = "log"
    /\ seen' = [seen EXCEPT ![t] = hist[handler[t]]]
    /\ pc' = [pc EXCEPT ![t] = "ready"]
    /\ UNCHANGED <<route, hist, fresh, afterReset, rvars, handlers, made, sid, msg, handler,
                   queue, result, token_count, ppc, cur, yielded, posted, called,
                   outcome, genCalls>>

\* ---- generate(): set-up ----

\* first next() on the generator: create the queue, start the producer thread
StartGenerate(t) ==
    /\ pc[t] = "ready"
    /\ queue' = [queue EXCEPT ![QueueOf(t)] = <<>>]
    /\ result' = [result EXCEPT ![t] = [response |-> "", error |-> None]]
    /\ token_count' = [token_count EXCEPT ![t] = 0]
    /\ ppc' = [ppc EXCEPT ![t] = "spawned"]
    /\ pc' = [pc EXCEPT ![t] = "wait"]
    /\ UNCHANGED <<svars, handlers, made, sid, msg, handler, cur, yielded, posted, called,
                   outcome, genCalls>>

\* ---- the producer thread: run_chat ----

\* run_chat enters its try block and calls handler.chat_stream
RunChatBegin(t) ==
    /\ ppc[t] = "spawned"
    /\ ppc' = [ppc EXCEPT ![t] = "run"]
    /\ genCalls' = [genCalls EXCEPT ![t] = @ + 1]
    /\ UNCHANGED <<svars, handlers, made, pc, sid, msg, handler, queue, result, token_count,
                   cur, yielded, posted, called, outcome>>

\* the generation call invokes on_token(token)
OnToken(t, token) ==
    /\ ppc[t] = "run"
    /\ Len(called[t]) < MaxTokens
    /\ PutEnabled(queue[QueueOf(t)])
    /\ called' = [called EXCEPT ![t] = Append(@, token)]
    /\ queue' = [queue EXCEPT ![QueueOf(t)] = QPut(@, TokenEvent(token))]
    /\ posted' = [posted EXCEPT ![t] = Append(@, TokenEvent(token))]
    /\ token_count' = [token_count EXCEPT ![t] = @ + 1]
    /\ UNCHANGED <<svars, handlers, made, pc, sid, msg, handler, result, ppc, cur, yielded,
                   outcome, genCalls>>

\* the generation call returns response: result['response'] = response
GenReturn(t, response) ==
    /\ ppc[t] = "run"
    /\ outcome' = [outcome EXCEPT ![t] = <<"returned", response>>]
    /\ result' = [result EXCEPT ![t].response = response]
    /\ ppc' = [ppc EXCEPT ![t] = "returned"]
    /\ hist' = [hist EXCEPT ![handler[t]] = HistAfterTurn(@)]
    /\ UNCHANGED <<route, seen, fresh, afterReset, rvars, handlers, made, pc, sid, msg, handler, queue, token_count, cur, yielded,
                   posted, called, genCalls>>

\* run_chat: token_queue.put(('done', response))
PutDone(t) ==
    /\ ppc[t] = "returned"
    /\ PutEnabled(queue[QueueOf(t)])
    /\ queue' = [queue EXCEPT ![QueueOf(t)] = QPut(@, DoneEvent(result[t].response))]
    /\ posted' = [posted EXCEPT ![t] = Append(@, DoneEvent(result[t].response))]
    /\ ppc' = [ppc EXCEPT ![t] = "exiting"]
    /\ UNCHANGED <<svars, handlers, made, pc, sid, msg, handler, result, token_count, cur, yielded,
                   called, outcome, genCalls>>

\* the generation call raises an Exception e: except Exception sets result['error'] = str(e)
GenRaise(t, e) ==
    /\ ppc[t] = "run"
    /\ outcome' = [outcome EXCEPT ![t] = <<"raised", e>>]
    /\ result' = [result EXCEPT ![t].error = e]
    /\ ppc' = [ppc EXCEPT ![t] = "raised"]
    /\ UNCHANGED <<svars, handlers, made, pc, sid, msg, handler, queue, token_count, cur, yielded,
                   posted, called, genCalls>>

\* run_chat, in the handler: token_queue.put(('error', str(e)))
PutError(t) ==
    /\ ppc[t] = "raised"
    /\ PutEnabled(queue[QueueOf(t)])
    /\ queue' = [queue EXCEPT ![QueueOf(t)] = QPut(@, ErrorEvent(result[t].error))]
    /\ posted' = [posted EXCEPT ![t] = Append(@, ErrorEvent(result[t].error))]
    /\ ppc' = [ppc EXCEPT ![t] = "exiting"]
    /\ UNCHANGED <<svars, handlers, made, pc, sid, msg, handler, result, token_count, cur, yielded,
                   called, outcome, genCalls>>

\* the generation call exits with a BaseException that is not an Exception
\* (asyncio.CancelledError, SystemExit): except Exception does not catch it,
\* the thread dies and nothing is put
GenAbort(t) ==
    /\ ppc[t] = "run"
    /\ outcome' = [outcome EXCEPT ![t] = <<"aborted">>]
    /\ ppc' = [ppc EXCEPT ![t] = "dead"]
    /\ UNCHANGED <<svars, handlers, made, pc, sid, msg, handler, queue, result, token_count,
                   cur, yielded, posted, called, genCalls>>

\* run_chat returns after its last put: the thread terminates
ThreadExit(t) ==
    /\ ppc[t] = "exiting"
    /\ ppc' = [ppc EXCEPT ![t] = "ended"]
    /\ UNCHANGED <<svars, handlers, made, pc, sid, msg, handler, queue, result, token_count,
                   cur, yielded, posted, called, outcome, genCalls>>

\* ---- the consumer: the while loop of generate() ----

\* token_queue.get returns the head; the matching frame is yielded
Get(t) ==
    /\ pc[t] = "wait"
    /\ queue[QueueOf(t)] # <<>>
    /\ queue' = [queue EXCEPT ![QueueOf(t)] = Tail(@)]
    /\ cur' = [cur EXCEPT ![t] = Frame(Head(queue[QueueOf(t)]))]
    /\ yielded' = [yielded EXCEPT ![t] = Append(@, Frame(Head(queue[QueueOf(t)])))]
    /\ pc' = [pc EXCEPT ![t] = "yield"]
    /\ UNCHANGED <<svars, handlers, made, sid, msg, handler, result, token_count, ppc,
                   posted, called, outcome, genCalls>>

\* variant: the timed wait gives up although an item is in the queue
QueueEmptySpurious(q) == TRUE

\* Queue.get raises queue.Empty only when the wait ends with no item in the queue
QueueEmpty(q) == q = <<>>

\* token_queue.get(timeout=60) raises queue.Empty: nothing arrived for 60 seconds
GetEmpty(t) ==
    /\ pc[t] = "wait"
    /\ QueueEmpty(queue[QueueOf(t)])
    /\ pc' = [pc EXCEPT ![t] = "empty"]
    /\ UNCHANGED <<svars, handlers, made, sid, msg, handler, queue, result, token_count, ppc,
                   cur, yielded, posted, called, outcome, genCalls>>

\* the history of frames after one more ping
RecordPing(fs) == IF PingCount(fs) < MaxPings THEN Append(fs, PingFrame) ELSE fs

\* except queue.Empty: the ping frame is yielded
YieldPing(t) ==
    /\ pc[t] = "empty"
    /\ cur' = [cur EXCEPT ![t] = PingFrame]
    /\ yielded' = [yielded EXCEPT ![t] = RecordPing(@)]
    /\ pc' = [pc EXCEPT ![t] = "yield"]
    /\ UNCHANGED <<svars, handlers, made, sid, msg, handler, queue, result, token_count, ppc,
                   posted, called, outcome, genCalls>>

\* the generator is resumed after a yield: break after done/error, else loop
Resume(t) ==
    /\ pc[t] = "yield"
    /\ pc' = [pc EXCEPT ![t] = AfterYield(cur[t].type)]
    /\ cur' = [cur EXCEPT ![t] = NoFrame]
    /\ UNCHANGED <<svars, handlers, made, sid, msg, handler, queue, result, token_count, ppc,
                   yielded, posted, called, outcome, genCalls>>

\* variant: generate() returns without waiting for the thread
ThreadTerminatedOrNot(p) == TRUE

\* the producer thread has terminated: run_chat returned or died
ThreadTerminated(p) == p \in {"ended", "dead"}

\* thread.join() returns once the producer thread has terminated; generate() ends
Join(t) ==
    /\ pc[t] = "join"
    /\ ThreadTerminated(ppc[t])
    /\ pc' = [pc EXCEPT ![t] = "finished"]
    /\ UNCHANGED <<svars, handlers, made, sid, msg, handler, queue, result, token_count, ppc,
                   cur, yielded, posted, called, outcome, genCalls>>

\* the client disconnects: the generator is closed at the yield it is suspended on
Disconnect(t) ==
    /\ pc[t] = "yield"
    /\ pc' = [pc EXCEPT ![t] = "closed"]
    /\ cur' = [cur EXCEPT ![t] = NoFrame]
    /\ UNCHANGED <<svars, handlers, made, sid, msg, handler, queue, result, token_count, ppc,
                   yielded, posted, called, outcome, genCalls>>

\* ---- /api/chat: the turn without streaming ----

\* chat: run handler.chat(message) on a new event loop, in the request thread
ChatCall(t) ==
    /\ pc[t] = "chat_ready"
    /\ pc' = [pc EXCEPT ![t] = "chat_run"]
    /\ UNCHANGED <<svars, handlers, made, sid, msg, handler, queue, result, token_count,
                   ppc, cur, yielded, posted, called, outcome, genCalls>>

\* handler.chat returns response: the 200 answer {'response': response}
ChatReturn(t, response) ==
    /\ pc[t] = "chat_run"
    /\ pc' = [pc EXCEPT ![t] = "chat_done"]
    /\ outcome' = [outcome EXCEPT ![t] = <<"returned", response>>]
    /\ hist' = [hist EXCEPT ![handler[t]] = HistAfterTurn(@)]
    /\ UNCHANGED <<route, seen, fresh, afterReset, rvars, handlers, made, sid, msg,
                   handler, queue, result, token_count, ppc, cur, yielded, posted,
                   called, genCalls>>

\* handler.chat raises an Exception e: the 500 answer {'error': str(e)}
ChatRaise(t, e) ==
    /\ pc[t] = "chat_run"
    /\ pc' = [pc EXCEPT ![t] = "chat_error"]
    /\ outcome' = [outcome EXCEPT ![t] = <<"raised", e>>]
    /\ UNCHANGED <<svars, handlers, made, sid, msg, handler, queue, result, token_count,
                   ppc, cur, yielded, posted, called, genCalls>>

\* handler.chat leaves with a BaseException that is not an Exception: the
\* except clause does not take it and chat is left without building an answer
ChatAbort(t) ==
    /\ pc[t] = "chat_run"
    /\ pc' = [pc EXCEPT ![t] = "chat_abort"]
    /\ outcome' = [outcome EXCEPT ![t] = <<"aborted">>]
    /\ UNCHANGED <<svars, handlers, made, sid, msg, handler, queue, result, token_count,
                   ppc, cur, yielded, posted, called, genCalls>>

\* ---- /api/reset and /api/status ----

\* the variables of the chat requests
tvars == <<pc, sid, msg, handler, queue, result, token_count, ppc, cur, yielded,
           posted, called, outcome, genCalls, route, seen, afterReset>>

\* POST /api/reset arrives: read session_id
ResetReceive(r, s) ==
    /\ rpc[r] = "idle"
    /\ rsid' = [rsid EXCEPT ![r] = s]
    /\ rpc' = [rpc EXCEPT ![r] = "check"]
    /\ UNCHANGED <<tvars, handlers, made, hist, fresh, rh, resetCalls, reported>>

\* variant: handler.reset() is invoked twice
CallsAfterResetTwice(n) == n + 2

\* the number of reset() invocations after handlers[session_id].reset()
CallsAfterReset(n) == n + 1

\* reset: if session_id in handlers; an unknown session goes straight to the answer
ResetCheck(r) ==
    /\ rpc[r] = "check"
    /\ IF HasSession(handlers, rsid[r])
          THEN /\ rpc' = [rpc EXCEPT ![r] = "call"]
               /\ fresh' = fresh
          ELSE /\ rpc' = [rpc EXCEPT ![r] = "ok"]
               /\ fresh' = [fresh EXCEPT ![rsid[r]] = TRUE]
    /\ UNCHANGED <<tvars, handlers, made, hist, rsid, rh, resetCalls, reported>>

\* reset: look up handlers[session_id] and enter its reset()
ResetCall(r) ==
    /\ rpc[r] = "call"
    /\ rh' = [rh EXCEPT ![r] = handlers[rsid[r]]]
    /\ resetCalls' = [resetCalls EXCEPT ![r] = CallsAfterReset(@)]
    /\ rpc' = [rpc EXCEPT ![r] = "in_reset"]
    /\ UNCHANGED <<tvars, handlers, made, hist, fresh, rsid, reported>>

\* handler.reset() clears the history and returns; reset answers {'status': 'ok'}
ResetDone(r) ==
    /\ rpc[r] = "in_reset"
    /\ hist' = [hist EXCEPT ![rh[r]] = HistAfterReset(@)]
    /\ fresh' = [fresh EXCEPT ![rsid[r]] = TRUE]
    /\ rpc' = [rpc EXCEPT ![r] = "ok"]
    /\ UNCHANGED <<tvars, handlers, made, rsid, rh, resetCalls, reported>>

\* GET /api/status: answer with len(handlers)
Status ==
    /\ reported' = SessionCount(handlers)
    /\ UNCHANGED <<tvars, handlers, made, hist, fresh, rpc, rsid, rh, resetCalls>>

\* ---- specifications ----

Request(t) ==
    \/ \E s \in Sessions, m \in Messages : Receive(t, s, m)
    \/ GetHandlerCheck(t)
    \/ GetHandlerCreate(t)
    \/ GetHandlerReturn(t)
    \/ LogHistory(t)

\* the generation call ends: it returns, raises an Exception, or exits otherwise
GenEnd(t) ==
    \/ \E response \in Texts : GenReturn(t, response)
    \/ \E e \in Failures : GenRaise(t, e)
    \/ GenAbort(t)

Producer(t) ==
    \/ RunChatBegin(t)
    \/ \E token \in Tokens : OnToken(t, token)
    \/ GenEnd(t)
    \/ PutDone(t)
    \/ PutError(t)
    \/ ThreadExit(t)

Consumer(t) ==
    \/ StartGenerate(t)
    \/ Get(t)
    \/ GetEmpty(t)
    \/ YieldPing(t)
    \/ Resume(t)
    \/ Join(t)
    \/ Disconnect(t)

Turn(t) == Request(t) \/ Producer(t) \/ Consumer(t)

\* a request to /api/chat: the call of handler.chat and its three exits
ChatTurn(t) ==
    \/ \E s \in Sessions, m \in Messages : ReceiveChat(t, s, m)
    \/ ChatCall(t)
    \/ \E response \in Texts : ChatReturn(t, response)
    \/ \E e \in Failures : ChatRaise(t, e)
    \/ ChatAbort(t)

ResetStep(r) ==
    \/ \E s \in Sessions : ResetReceive(r, s)
    \/ ResetCheck(r)
    \/ ResetCall(r)
    \/ ResetDone(r)

\* the whole program: every request of every endpoint on its own thread
Next ==
    \/ \E t \in Turns : Turn(t) \/ ChatTurn(t)
    \/ \E r \in Resets : ResetStep(r)
    \/ Status

Spec == Init /\ [][Next]_vars

\* one stream turn from request to the end of generate().  A turn shares only
\* the dict handlers with other requests; its queue, result and threads are
\* local to generate().
NextTurn == Turn(1)

SpecTurn == Init /\ [][NextTurn]_vars

\* what the scheduler guarantees a turn: runnable threads run, the timed wait
\* expires, the generation call ends.  The client is free to stay or to leave.
FairnessTurn ==
    /\ WF_vars(GetHandlerCheck(1)) /\ WF_vars(GetHandlerCreate(1))
    /\ WF_vars(GetHandlerReturn(1)) /\ WF_vars(LogHistory(1))
    /\ WF_vars(StartGenerate(1))
    /\ WF_vars(RunChatBegin(1)) /\ WF_vars(GenEnd(1))
    /\ WF_vars(PutDone(1)) /\ WF_vars(PutError(1)) /\ WF_vars(ThreadExit(1))
    /\ WF_vars(Get(1)) /\ WF_vars(GetEmpty(1)) /\ WF_vars(YieldPing(1))
    /\ WF_vars(Resume(1)) /\ WF_vars(Join(1))

FairTurn == SpecTurn /\ FairnessTurn

\* the token the generation call of turn t produces when two turns run side
\* by side: tokens of different turns differ
TokenOfTurn(t) == IF t = 1 THEN "a" ELSE "b"

\* two stream turns side by side, on one session or on two, neither stalling
\* long enough for a timeout and neither client leaving
StreamStep(t) ==
    \/ Request(t)
    \/ StartGenerate(t)
    \/ RunChatBegin(t)
    \/ OnToken(t, TokenOfTurn(t))
    \/ GenEnd(t)
    \/ PutDone(t)
    \/ PutError(t)
    \/ ThreadExit(t)
    \/ Get(t)
    \/ Resume(t)
    \/ Join(t)

NextStreams == StreamStep(1) \/ StreamStep(2)

SpecStreams == Init /\ [][NextStreams]_vars

\* a chat request of either endpoint, as far as it touches the session map and
\* the handler: the stream turn up to the end of its generation call
SessionStep(t) ==
    \/ Request(t)
    \/ ChatTurn(t)
    \/ StartGenerate(t)
    \/ RunChatBegin(t)
    \/ GenEnd(t)

\* two chat requests, the reset requests and status requests, all concurrent
NextSessions ==
    \/ SessionStep(1)
    \/ SessionStep(2)
    \/ \E r \in Resets : ResetStep(r)
    \/ Status

SpecSessions == Init /\ [][NextSessions]_vars

\* request t is being served, or its generation call has not ended
Busy(t) ==
    \/ pc[t] \in {"gh_check", "gh_create", "gh_return", "log", "ready", "chat_ready",
                 "chat_run"}
    \/ ppc[t] \in {"spawned", "run"}

\* the same requests served one at a time: a request is taken up only when
\* every other one has been answered and its generation call has ended
NextSerial ==
    \/ \E t \in {1, 2} :
          /\ \A u \in Turns \ {t} : ~Busy(u)
          /\ \A r \in Resets : rpc[r] \in {"idle", "ok"}
          /\ SessionStep(t)
    \/ \E r \in Resets :
          /\ \A u \in Turns : ~Busy(u)
          /\ \A q \in Resets \ {r} : rpc[q] \in {"idle", "ok"}
          /\ ResetStep(r)

SpecSerial == Init /\ [][NextSerial]_vars

\* concurrent requests up to the point where chat_stream has its handler
NextRegistry == \E t \in Turns : Request(t)

SpecRegistry == Init /\ [][NextRegistry]_vars

\* ---- properties of the bridge ----

\* the token frames the tokens passed to on_token ask for
TokenFrames(ts) == [i \in 1..Len(ts) |-> [type |-> "token", content |-> ts[i]]]

\* the frames of fs except the last
Front(fs) == SubSeq(fs, 1, Len(fs) - 1)

\* the consumer has left its loop through a break
LeftLoop(t) == pc[t] \in {"join", "finished"}

HasTerminal(fs) == \E i \in 1..Len(fs) : fs[i].type \in Terminal

\* C1: with the pings removed, the frames yielded so far are the tokens passed
\* to on_token, in call order, none lost or duplicated; a terminal frame comes
\* only after all of them, and when the consumer leaves its loop the frames
\* are exactly those tokens followed by exactly one terminal frame.
C1_TokensInOrderThenOneTerminal ==
    \A t \in Turns :
        LET np == NonPing(yielded[t]) IN
        \/ /\ IsPrefix(np, TokenFrames(called[t]))
           /\ ~LeftLoop(t)
        \/ /\ np # <<>>
           /\ Front(np) = TokenFrames(called[t])
           /\ Last(np).type \in Terminal

C1_Witness ==
    \E t \in Turns :
        /\ pc[t] = "finished"
        /\ called[t] = <<"a", "b">>
        /\ yielded[t] = <<[type |-> "token", content |-> "a"], [type |-> "ping"],
                          [type |-> "token", content |-> "b"],
                          [type |-> "done", content |-> "hello"]>>

\* C2: a terminal frame (done or error) is only ever the last frame yielded:
\* at most one is yielded, and no frame of any type follows it.
C2_TerminalIsLast ==
    \A t \in Turns :
        \A i \in 1..Len(yielded[t]) :
            yielded[t][i].type \in Terminal => i = Len(yielded[t])

C2_Witness ==
    \E t \in Turns :
        /\ pc[t] = "finished"
        /\ PingCount(yielded[t]) < MaxPings
        /\ Last(yielded[t]).type = "error"

\* the failure of a generation call that has ended by raising: the message of
\* an Exception, None for an exit that carries none
FailureOf(t) == IF outcome[t][1] = "raised" THEN outcome[t][2] ELSE None

\* the frames of a turn whose generation call raised: at most the token frames
\* of its on_token calls and then one error frame, never a done frame
FailedFrames(t) ==
    {TokenFrames(called[t]) \o <<[type |-> "error", content |-> m]>> :
        m \in IF FailureOf(t) = None THEN Failures ELSE {FailureOf(t)}}

\* C3: when the generation call has raised after on_token was called with
\* t1..tn, the consumer goes on to leave its loop having yielded, pings aside,
\* the token frames t1..tn in order and then exactly one error frame with the
\* failure's message, unless the client closes the stream first; until then
\* the frames yielded are a prefix of that, and the generation call is
\* started once and never again.
C3_FailureBecomesOneErrorFrame ==
    \A t \in Turns :
        /\ [](genCalls[t] <= 1)
        /\ [](outcome[t][1] \in {"raised", "aborted"} =>
                \E all \in FailedFrames(t) : IsPrefix(NonPing(yielded[t]), all))
        /\ (outcome[t][1] \in {"raised", "aborted"})
              ~> \/ pc[t] = "closed"
                 \/ /\ pc[t] \in {"join", "finished"}
                    /\ NonPing(yielded[t]) \in FailedFrames(t)

\* the same for the failures that run_chat catches, as a property of every
\* state: a prefix of the frames while the loop runs, all of them once it is left
CaughtFailureBecomesOneErrorFrame ==
    \A t \in Turns :
        LET np == NonPing(yielded[t]) IN
        /\ genCalls[t] <= 1
        /\ ppc[t] # "none" /\ ppc[t] # "spawned" => genCalls[t] = 1
        /\ outcome[t][1] = "raised" =>
              LET all == TokenFrames(called[t]) \o
                         <<[type |-> "error", content |-> outcome[t][2]]>> IN
              /\ IsPrefix(np, all)
              /\ LeftLoop(t) => np = all
        /\ outcome[t][1] = "aborted" => IsPrefix(np, TokenFrames(called[t]))

\* a caught failure after two tokens, delivered as the last frame
C3_Witness ==
    \E t \in Turns :
        /\ pc[t] = "finished"
        /\ outcome[t] = <<"raised", "boom">>
        /\ yielded[t] = <<[type |-> "token", content |-> "a"],
                          [type |-> "token", content |-> "b"],
                          [type |-> "error", content |-> "boom"]>>

\* C4: a done frame carries the value the generation call returned; the token
\* frames yielded are tokens passed to on_token; and when the call returned T
\* without ever calling on_token, the consumer leaves its loop having yielded
\* (pings aside) the single frame done T.
C4_DoneCarriesReturnValue ==
    \A t \in Turns :
        /\ \A i \in 1..Len(yielded[t]) :
              /\ yielded[t][i].type = "done" =>
                    outcome[t] = <<"returned", yielded[t][i].content>>
              /\ yielded[t][i].type = "token" =>
                    \E j \in 1..Len(called[t]) : called[t][j] = yielded[t][i].content
        /\ Cardinality({i \in 1..Len(yielded[t]) : yielded[t][i].type = "token"})
              <= Len(called[t])
        /\ (outcome[t][1] = "returned" /\ called[t] = <<>> /\ LeftLoop(t)) =>
              NonPing(yielded[t]) = <<[type |-> "done", content |-> outcome[t][2]]>>

C4_Witness ==
    \E t \in Turns :
        /\ pc[t] = "finished"
        /\ called[t] = <<>>
        /\ yielded[t] = <<[type |-> "done", content |-> "hello"]>>

\* the terminal events among the events evs
TerminalPuts(evs) == {i \in 1..Len(evs) : evs[i][1] \in Terminal}

\* C5: the timed wait expires only on an empty queue; the consumer then yields
\* a ping frame and nothing else, leaves the queue as it is and goes back to
\* waiting on it (only the client closing the stream ends the turn there);
\* and a terminal event the producer posts is still delivered after the pings.
C5_TimeoutPingsAndWaitsAgain ==
    /\ [][\A t \in Turns :
            /\ (pc[t] = "wait" /\ pc'[t] = "empty") => queue[t] = <<>>
            /\ (pc[t] = "empty" /\ pc'[t] # "empty") =>
                  /\ pc'[t] = "yield"
                  /\ cur'[t] = [type |-> "ping"]
                  /\ PingCount(yielded[t]) < MaxPings =>
                        yielded'[t] = Append(yielded[t], [type |-> "ping"])
                  /\ NonPing(yielded'[t]) = NonPing(yielded[t])
                  /\ queue'[t] = queue[t]
            /\ (pc[t] = "yield" /\ cur[t].type = "ping" /\ pc'[t] # "yield") =>
                  pc'[t] \in {"wait", "closed"}]_vars
    /\ \A t \in Turns :
          (PingCount(yielded[t]) > 0 /\ TerminalPuts(posted[t]) # {})
             ~> \/ pc[t] = "closed"
                \/ yielded[t] # <<>> /\ Last(yielded[t]).type \in Terminal

C5_Witness ==
    \E t \in Turns :
        /\ pc[t] = "finished"
        /\ yielded[t] = <<[type |-> "ping"], [type |-> "ping"],
                          [type |-> "done", content |-> "hello"]>>

\* C6: when the producer thread has ended without posting a terminal event,
\* the consumer eventually yields an error frame and stops, unless the client
\* has closed the stream before.
C6_DeadProducerSurfacesError ==
    \A t \in Turns :
        (ppc[t] = "dead" /\ pc[t] \in {"wait", "empty", "yield"})
           ~> \/ pc[t] = "closed"
              \/ /\ pc[t] \in {"join", "finished"}
                 /\ Last(yielded[t]).type = "error"

\* C7: a turn whose consumer has entered its loop eventually finishes
\* generate(), unless the client closes the stream.
C7_TurnFinishes ==
    \A t \in Turns : (pc[t] = "wait") ~> (pc[t] \in {"finished", "closed"})

\* the same with the turns set aside whose producer thread died without a put
TurnFinishesUnlessProducerDied ==
    \A t \in Turns : (pc[t] = "wait") ~> (pc[t] \in {"finished", "closed"} \/ ppc[t] = "dead")

\* C8: when the producer thread has terminated, on whatever path, it has put
\* exactly one terminal event on the queue, as the last item put.
C8_OneTerminalPutOnEveryExit ==
    \A t \in Turns :
        ppc[t] \in {"ended", "dead"} =>
            /\ Cardinality(TerminalPuts(posted[t])) = 1
            /\ Last(posted[t])[1] \in Terminal

\* the same for the threads that returned from run_chat
OneTerminalPutWhenRunChatReturns ==
    \A t \in Turns :
        /\ Cardinality(TerminalPuts(posted[t])) <= 1
        /\ ppc[t] \in {"exiting", "ended"} =>
            /\ Cardinality(TerminalPuts(posted[t])) = 1
            /\ Last(posted[t])[1] \in Terminal

\* C9: once the client has closed the stream, the consumer takes nothing from
\* the queue and yields nothing more; the producer only ever appends to the
\* queue, is never blocked by the missing reader, and runs until its thread
\* terminates.
C9_DisconnectLeavesProducerRunning ==
    /\ [][\A t \in Turns :
            pc[t] = "closed" =>
                /\ pc'[t] = "closed"
                /\ yielded'[t] = yielded[t]
                /\ IsPrefix(queue[t], queue'[t])]_vars
    /\ \A t \in Turns : (pc[t] = "closed") ~> (ppc[t] \in {"ended", "dead"})

C9_Witness ==
    \E t \in Turns :
        /\ pc[t] = "closed"
        /\ ppc[t] = "ended"
        /\ yielded[t] = <<[type |-> "token", content |-> "a"]>>
        /\ queue[t] = <<<<"token", "b">>, <<"done", "hello">>>>

\* C10: at most one handler instance is ever constructed for a session id, and
\* all requests of one session id get the same instance from get_handler.
C10_OneHandlerPerSession ==
    /\ \A s \in Sessions : Cardinality(made[s]) <= 1
    /\ \A t1, t2 \in Turns :
          (handler[t1] # NoHandler /\ handler[t2] # NoHandler /\ sid[t1] = sid[t2])
             => handler[t1] = handler[t2]

\* C14: a stream request whose message is empty or missing ends in the 400
\* rejection and nothing else: it never has a handler, a producer thread, a
\* queue item or a frame, and no step of it changes the session map.
C14_EmptyMessageRejectedBeforeBridge ==
    /\ [](\A t \in Turns :
            (pc[t] # "idle" /\ msg[t] = "") =>
                /\ pc[t] = "rejected"
                /\ handler[t] = NoHandler
                /\ ppc[t] = "none"
                /\ genCalls[t] = 0
                /\ queue[t] = <<>> /\ posted[t] = <<>> /\ yielded[t] = <<>>)
    /\ [][\A t \in Turns :
            (msg'[t] = "" /\ pc'[t] # pc[t]) => (handlers' = handlers /\ made' = made)]_vars

C14_Witness ==
    \E t \in Turns : pc[t] = "rejected" /\ msg[t] = "" /\ handlers[sid[t]] = NoHandler

\* C15: a ping frame is yielded only when the timed wait expired on an empty
\* queue, no event of the producer is pending in the queue at the moment a
\* ping is yielded, and a ping neither replaces nor follows the terminal frame.
C15_NoPingWhileEventPending ==
    [][\A t \in Turns :
          /\ (pc[t] = "wait" /\ pc'[t] = "empty") => queue[t] = <<>>
          /\ (pc[t] = "empty" /\ pc'[t] = "yield") =>
                /\ queue[t] = <<>>
                /\ ~HasTerminal(yielded[t])
          /\ (pc[t] = "wait" /\ pc'[t] = "yield") =>
                cur'[t] = [type |-> Head(queue[t])[1], content |-> Head(queue[t])[2]]]_vars

\* C15, amended: a ping frame is yielded only after a timed wait that expired
\* on an empty queue; an event put between the expiry and the yield stays in
\* the queue while the ping is yielded, and is the next frame; a ping neither
\* replaces nor follows the terminal frame.
C15_PingOnlyAfterEmptyWait ==
    [][\A t \in Turns :
          /\ (pc[t] = "wait" /\ pc'[t] = "empty") => queue[t] = <<>>
          /\ (cur'[t].type = "ping" /\ cur[t].type # "ping") => pc[t] = "empty"
          /\ (pc[t] = "empty" /\ pc'[t] = "yield") =>
                /\ cur'[t] = [type |-> "ping"]
                /\ queue'[t] = queue[t]
                /\ ~HasTerminal(yielded[t])
          /\ (pc[t] = "wait" /\ pc'[t] = "yield") =>
                cur'[t] = [type |-> Head(queue[t])[1], content |-> Head(queue[t])[2]]]_vars

C15_Witness ==
    \E t \in Turns :
        /\ pc[t] = "yield"
        /\ cur[t] = [type |-> "ping"]
        /\ yielded[t] = <<[type |-> "token", content |-> "a"], [type |-> "ping"]>>
        /\ queue[t] = <<<<"token", "b">>, <<"done", "hello">>>>

\* C18: generate() has finished on the normal path only when the producer
\* thread of the turn has terminated, having put its terminal event; on the
\* disconnect path the consumer goes from its yield straight to closed,
\* without passing through thread.join().
C18_FinishedOnlyAfterProducerEnded ==
    /\ [](\A t \in Turns :
            pc[t] = "finished" => (ppc[t] = "ended" /\ HasTerminal(yielded[t])))
    /\ [][\A t \in Turns :
            /\ pc'[t] = "finished" => pc[t] \in {"join", "finished"}
            /\ pc'[t] = "closed" => pc[t] \in {"yield", "closed"}]_vars

\* the consumer waits in thread.join() for a producer that has not yet terminated
C18_Witness ==
    \E t \in Turns : pc[t] = "join" /\ ppc[t] = "exiting"

\* the disconnect path: the consumer is gone while the producer still runs
DisconnectedWhileProducerRuns ==
    \E t \in Turns : pc[t] = "closed" /\ ppc[t] = "run"

\* the frames the events evs are yielded as
EventFrames(evs) == [i \in 1..Len(evs) |-> [type |-> evs[i][1], content |-> evs[i][2]]]

\* C17: every turn has its own queue: what a turn's producer has posted is,
\* in order, what that turn's consumer has yielded (pings aside) followed by
\* what waits in that turn's queue; so a turn yields only events of its own
\* producer and none of them goes to another turn.
C17_EachTurnItsOwnQueue ==
    \A t \in Turns :
        EventFrames(posted[t]) = NonPing(yielded[t]) \o EventFrames(queue[t])

C17_Witness ==
    /\ sid[1] = sid[2]
    /\ pc[1] = "yield" /\ pc[2] = "yield"
    /\ ppc[1] = "run" /\ ppc[2] = "run"
    /\ yielded[1] = <<[type |-> "token", content |-> "a"]>>
    /\ yielded[2] = <<[type |-> "token", content |-> "b"]>>
    /\ queue[1] = <<<<"token", "a">>>>
    /\ queue[2] = <<<<"token", "b">>>>

\* ---- properties of the sessions ----

\* the execution contexts that are inside a mutating call on handler instance h:
\* producers in handler.chat_stream, request threads in handler.chat, reset
\* threads in handler.reset
Mutators(h) ==
    {<<"producer", t>> : t \in {u \in Turns : ppc[u] = "run" /\ handler[u] = h}}
    \cup {<<"chat", t>> : t \in {u \in Turns : pc[u] = "chat_run" /\ handler[u] = h}}
    \cup {<<"reset", r>> : r \in {q \in Resets : rpc[q] = "in_reset" /\ rh[q] = h}}

\* C11: at no time are two execution contexts mutating the same handler.
C11_OneMutatorPerHandler ==
    \A h \in Instances : Cardinality(Mutators(h)) <= 1

\* the number of sessions in the map hs
Known(hs) == Cardinality({s \in Sessions : hs[s] # NoHandler})

\* C12: a reset request ends in the answer 'ok' and nowhere else; when the
\* session is in the map, handler.reset() is invoked exactly once; when it is
\* not, the request invokes nothing and changes neither the map nor any
\* history; no step of a reset request creates a handler or changes the
\* number of sessions.
C12_ResetOkOnceOrNoOp ==
    /\ [](\A r \in Resets :
            /\ rpc[r] \in {"idle", "check", "call", "in_reset", "ok"}
            /\ resetCalls[r] <= 1
            /\ rpc[r] = "in_reset" => resetCalls[r] = 1)
    /\ [][\A r \in Resets :
            /\ rpc[r] = "ok" => (rpc'[r] = "ok" /\ resetCalls'[r] = resetCalls[r])
            /\ rpc'[r] # rpc[r] =>
                  /\ handlers' = handlers /\ made' = made
                  /\ Known(handlers') = Known(handlers)
            /\ (rpc[r] = "check" /\ rpc'[r] # "check") =>
                  IF handlers[rsid[r]] # NoHandler
                     THEN rpc'[r] = "call"
                     ELSE /\ rpc'[r] = "ok"
                          /\ resetCalls'[r] = 0
                          /\ hist' = hist
            /\ (rpc[r] = "call" /\ rpc'[r] # "call") =>
                  /\ rpc'[r] = "in_reset"
                  /\ resetCalls'[r] = resetCalls[r] + 1
            /\ (rpc[r] = "in_reset" /\ rpc'[r] # "in_reset") =>
                  /\ rpc'[r] = "ok"
                  /\ resetCalls'[r] = 1]_vars

C12_Witness ==
    \E r \in Resets :
        /\ rpc[r] = "ok"
        /\ resetCalls[r] = 1
        /\ handlers[rsid[r]] # NoHandler
        /\ reported = 1

\* the no-op answer: the session of the reset is still unknown
ResetOfUnknownSession ==
    \E r \in Resets : rpc[r] = "ok" /\ resetCalls[r] = 0 /\ handlers[rsid[r]] = NoHandler

\* C13: the first turn started on a session after a reset of that session has
\* returned finds the handler's history empty at its start, whether or not an
\* earlier turn of the session was still under way when the reset returned.
C13_TurnAfterResetSeesEmptyHistory ==
    \A t \in Turns : (afterReset[t] /\ seen[t] # NotYet) => seen[t] = 0

\* a turn that started after a reset and found a history left by another turn
TurnAfterResetSeesHistory ==
    \E t \in Turns : afterReset[t] /\ seen[t] > 0

\* C16: the session map never evicts: no step of a chat, chat_stream, reset or
\* status request removes a session id from handlers, and an id is added only
\* by get_handler on behalf of a chat or chat_stream request that carries
\* that id and a non-empty message.
C16_SessionMapOnlyGrows ==
    [][/\ \A s \in Sessions : HasSession(handlers, s) => HasSession(handlers', s)
       /\ \A s \in Sessions :
            (~HasSession(handlers, s) /\ HasSession(handlers', s)) =>
                \E t \in Turns : /\ pc[t] = "gh_create"
                                 /\ pc'[t] = "gh_return"
                                 /\ sid[t] = s
                                 /\ route[t] \in {"chat", "stream"}
                                 /\ msg[t] # ""]_vars

\* both sessions are in the map after a reset that called handler.reset()
\* has answered and /api/status has counted them
C16_Witness ==
    /\ \A s \in Sessions : HasSession(handlers, s)
    /\ \E r \in Resets : rpc[r] = "ok" /\ resetCalls[r] = 1
    /\ reported = 2

====
